---- MODULE Spec2Model ----
(***************************************************************************)
(* Payment-event reconciliation pipeline of oshaberiaiko (src/index.js):   *)
(* the two Stripe webhook receivers, the event ledger (stripe_events), the *)
(* identity resolver, the event dispatcher (handleStripeEvent), the users  *)
(* collection, and the read paths (GET /api/user/:id, chatWithAiko).       *)
(*                                                                         *)
(* Every await on the document store, the payments API or the messaging    *)
(* API is one action: the action is the moment the call takes effect, and  *)
(* the synchronous code that follows it up to the next await is part of    *)
(* the same action.                                                        *)
(***************************************************************************)
EXTENDS Integers, Sequences, FiniteSets, Bags, TLC

VARIABLES users, ledger, now, reqs, lastRead, chats, usage

vars == <<users, ledger, now, reqs, lastRead, chats, usage>>

(***************************************************************************)
(* Bounds                                                                  *)
(***************************************************************************)
MaxReq == 2
MaxSeq == 2
MaxSeed == 2
MaxTime == 2
MaxChat == 1

(***************************************************************************)
(* Values                                                                  *)
(***************************************************************************)
UserIds == {"u1", "u2"}
Customers == {"c1", "c2"}
NoUser == ""
NoCust == ""
Null == 0
CancelTrue == "true"
CancelNull == "null"
Times == 1..MaxTime
EmptyDoc == [f \in {} |-> Null]

RICHMENU_ID_PREMIUM == "premium"
RICHMENU_ID_REGULAR == "regular"
NoMenu == ""

EventTypes == {"customer.subscription.updated", "checkout.session.completed",
               "invoice.payment_succeeded", "customer.subscription.deleted",
               "customer.created"}

(***************************************************************************)
(* Document store: a collection is a function from the ids of the existing *)
(* documents to documents; a document is a function from the names of the  *)
(* fields it holds to their values.                                        *)
(***************************************************************************)
Has(doc, f) == f \in DOMAIN doc

Exists(coll, id) == id \in DOMAIN coll

Data(coll, id) == IF Exists(coll, id) THEN coll[id] ELSE EmptyDoc

Merge(doc, patch) ==
  [f \in (DOMAIN doc) \cup (DOMAIN patch) |->
     IF f \in DOMAIN patch THEN patch[f] ELSE doc[f]]

(* a set() without { merge: true }: the patch replaces the document        *)
SetOverwrite(coll, id, patch) ==
  [d \in (DOMAIN coll) \cup {id} |-> IF d = id THEN patch ELSE coll[d]]

SetMerge(coll, id, patch) ==
  [d \in (DOMAIN coll) \cup {id} |->
     IF d = id THEN Merge(Data(coll, id), patch) ELSE coll[d]]

Opt(cond, patch) == IF cond THEN patch ELSE EmptyDoc

tsFromSec(sec) == IF sec # 0 THEN sec ELSE Null

(***************************************************************************)
(* Stripe events.  One record shape serves the four handled objects:       *)
(*   metaUser            data.object.metadata.userId ("" when absent)      *)
(*   customer            data.object.customer, as id ("" when absent)      *)
(*   subRef              form of data.object.subscription of an invoice or *)
(*                       a checkout session: "none", "id" or "object"      *)
(*   subId               id of that subscription                           *)
(*   subMetaUser         metadata.userId of that subscription              *)
(*   subPeriodEnd        current_period_end of that subscription           *)
(*   mode                session.mode                                      *)
(*   cancel_at_period_end, cancel_at, current_period_end                   *)
(*                       fields of a subscription object (0 when absent)   *)
(*   lines, period_end   invoice line items <<[type, periodEnd]>> and the  *)
(*                       invoice's own period_end (0 when absent)          *)
(***************************************************************************)
BaseEvent ==
  [id |-> "", type |-> "customer.created", metaUser |-> NoUser,
   customer |-> NoCust, subRef |-> "none", subId |-> "", subMetaUser |-> NoUser,
   subPeriodEnd |-> 0, mode |-> "subscription", cancel_at_period_end |-> FALSE,
   cancel_at |-> 0, current_period_end |-> 0, lines |-> <<>>, period_end |-> 0]

NoEvent == BaseEvent

With(ev, patch) == [f \in DOMAIN ev |-> IF f \in DOMAIN patch THEN patch[f] ELSE ev[f]]

SubLine(t) == [type |-> "subscription", periodEnd |-> t]

ItemLine(t) == [type |-> "invoiceitem", periodEnd |-> t]

EvCheckout1 ==
  With(BaseEvent, [id |-> "evt_ck1", type |-> "checkout.session.completed",
                   metaUser |-> "u1", customer |-> "c1", subRef |-> "id",
                   subId |-> "s1", subMetaUser |-> "u1", subPeriodEnd |-> 2])

EvCheckout2 ==
  With(BaseEvent, [id |-> "evt_ck2", type |-> "checkout.session.completed",
                   metaUser |-> "u2", customer |-> "c1", subRef |-> "object",
                   subId |-> "s2", subMetaUser |-> "u2", subPeriodEnd |-> 1])

EvCheckoutNoTag ==
  With(BaseEvent, [id |-> "evt_ck3", type |-> "checkout.session.completed",
                   customer |-> "c1", subRef |-> "id", subId |-> "s3",
                   subPeriodEnd |-> 2])

EvInvoice1 ==
  With(BaseEvent, [id |-> "evt_inv1", type |-> "invoice.payment_succeeded",
                   customer |-> "c1", subRef |-> "id", subId |-> "s1",
                   lines |-> <<SubLine(2)>>, period_end |-> 1])

EvUpdated1 ==
  With(BaseEvent, [id |-> "evt_upd1", type |-> "customer.subscription.updated",
                   customer |-> "c1", subId |-> "s1",
                   cancel_at_period_end |-> TRUE, current_period_end |-> 2])

EvDeleted1 ==
  With(BaseEvent, [id |-> "evt_del1", type |-> "customer.subscription.deleted",
                   metaUser |-> "u1", customer |-> "c1", subId |-> "s1",
                   current_period_end |-> 1])

EvOther1 == With(BaseEvent, [id |-> "evt_oth1", type |-> "customer.created",
                             customer |-> "c2"])

EvUpdated2 ==
  With(BaseEvent, [id |-> "evt_upd2", type |-> "customer.subscription.updated",
                   metaUser |-> "u2", customer |-> "c2", subId |-> "s2",
                   current_period_end |-> 2])

(* a second checkout of user u1, under another customer id                 *)
EvCheckoutAgain ==
  With(BaseEvent, [id |-> "evt_ck4", type |-> "checkout.session.completed",
                   metaUser |-> "u1", customer |-> "c2", subRef |-> "object",
                   subId |-> "s4", subMetaUser |-> "u1", subPeriodEnd |-> 1])

(* a cancellation scheduled for a date, on a subscription without period   *)
EvUpdated3 ==
  With(BaseEvent, [id |-> "evt_upd3", type |-> "customer.subscription.updated",
                   metaUser |-> "u1", customer |-> "c1", subId |-> "s1",
                   cancel_at |-> 1])

EvInvoice2 ==
  With(BaseEvent, [id |-> "evt_inv2", type |-> "invoice.payment_succeeded",
                   metaUser |-> "u1", customer |-> "c1", subRef |-> "object",
                   subId |-> "s1", subMetaUser |-> "u1",
                   lines |-> <<ItemLine(1), SubLine(2)>>, period_end |-> 1])

EvInvoice3 ==
  With(BaseEvent, [id |-> "evt_inv3", type |-> "invoice.payment_succeeded",
                   metaUser |-> "u2", customer |-> "c2",
                   lines |-> <<ItemLine(2)>>, period_end |-> 1])

EvInvoice4 ==
  With(BaseEvent, [id |-> "evt_inv4", type |-> "invoice.payment_succeeded",
                   metaUser |-> "u2", customer |-> "c2", period_end |-> 1])

(* an event type handleStripeEvent has no case for                         *)
EvCreated1 ==
  With(BaseEvent, [id |-> "evt_crt1", type |-> "customer.subscription.created",
                   metaUser |-> "u1", customer |-> "c1", subId |-> "s1",
                   current_period_end |-> 2])

SeqCatalog == {EvCheckout1, EvCheckoutAgain, EvUpdated1, EvUpdated2, EvUpdated3,
               EvInvoice1, EvInvoice2, EvInvoice3, EvInvoice4, EvDeleted1,
               EvCreated1}

ReadCatalog == {EvCheckout1, EvCheckout2, EvUpdated1, EvUpdated2, EvDeleted1}

Catalog == {EvCheckout1, EvCheckout2, EvCheckoutNoTag, EvInvoice1, EvUpdated1,
            EvDeleted1, EvOther1}

(* checkout sessions that link user u to customer c                        *)
SeedId(u, c) ==
  CASE u = "u1" /\ c = "c1" -> "evt_seed_11"
    [] u = "u1" /\ c = "c2" -> "evt_seed_12"
    [] u = "u2" /\ c = "c1" -> "evt_seed_21"
    [] OTHER -> "evt_seed_22"

Seeds ==
  {With(BaseEvent, [id |-> SeedId(u, c), type |-> "checkout.session.completed",
                    metaUser |-> u, customer |-> c, mode |-> "payment"]) :
     u \in UserIds, c \in Customers}

(* every shape in which an event can carry the identity of its user        *)
ProbeId == "evt_probe"

InvoiceProbes ==
  {With(BaseEvent, [id |-> ProbeId, type |-> "invoice.payment_succeeded",
                    metaUser |-> m, customer |-> c, subRef |-> sr, subId |-> "s1",
                    subMetaUser |-> sm, lines |-> <<SubLine(2)>>]) :
     m \in {NoUser, "u2"}, c \in Customers \cup {NoCust},
     sr \in {"none", "id", "object"}, sm \in {NoUser, "u1"}}

SubscriptionProbes ==
  {With(BaseEvent, [id |-> ProbeId, type |-> ty, metaUser |-> m, customer |-> c,
                    subId |-> "s1", current_period_end |-> 2]) :
     ty \in {"customer.subscription.updated", "customer.subscription.deleted"},
     m \in {NoUser, "u2"}, c \in Customers \cup {NoCust}}

CheckoutProbes ==
  {With(BaseEvent, [id |-> ProbeId, type |-> "checkout.session.completed",
                    metaUser |-> m, customer |-> c, subRef |-> "id", subId |-> "s1",
                    subMetaUser |-> "u1", subPeriodEnd |-> 2]) :
     m \in {NoUser, "u2"}, c \in Customers \cup {NoCust}}

Probes == InvoiceProbes \cup SubscriptionProbes \cup CheckoutProbes

EventIds == {ev.id : ev \in Catalog \cup ReadCatalog \cup SeqCatalog \cup Seeds \cup Probes}

(***************************************************************************)
(* Identity resolution                                                     *)
(***************************************************************************)
CustomerMatches(coll, customerId) ==
  {u \in DOMAIN coll :
     Has(coll[u], "stripeCustomerId") /\ coll[u].stripeCustomerId = customerId}

(* resolveUserIdFromCustomerId: the possible results of the limit(1) query *)
resolveUserIdFromCustomerId(coll, customerId) ==
  IF customerId = NoCust THEN {NoUser}
  ELSE IF CustomerMatches(coll, customerId) = {} THEN {NoUser}
  ELSE CustomerMatches(coll, customerId)

(* a selection that takes the first line item whatever its type            *)
SubLineOfFirst(lineItems) ==
  IF Len(lineItems) > 0 THEN lineItems[1] ELSE [type |-> "", periodEnd |-> 0]

(* line-item period end of an invoice: lines 279-283                       *)
SubLineOf(lineItems) ==
  IF \E i \in 1..Len(lineItems) : lineItems[i].type = "subscription"
  THEN lineItems[CHOOSE i \in 1..Len(lineItems) :
                   /\ lineItems[i].type = "subscription"
                   /\ \A j \in 1..(i-1) : lineItems[j].type # "subscription"]
  ELSE IF Len(lineItems) > 0 THEN lineItems[1]
  ELSE [type |-> "", periodEnd |-> 0]

periodEndSec(inv) ==
  IF SubLineOf(inv.lines).periodEnd # 0 THEN SubLineOf(inv.lines).periodEnd
  ELSE inv.period_end

(***************************************************************************)
(* handleStripeEvent: the patch each transition merges into the user's     *)
(* document.  sub is the outcome of stripe.subscriptions.retrieve          *)
(* ("ok" / "failed" / "unfetched"), t the server timestamp of the write.   *)
(***************************************************************************)
willCancel(sub) == sub.cancel_at_period_end \/ sub.cancel_at # 0

cancelAtSec(sub) == IF sub.cancel_at # 0 THEN sub.cancel_at ELSE sub.current_period_end

(* a lookup that reads the period end of an expanded subscription only     *)
premiumUntilTsExpandedOnly(session, sub) ==
  IF session.mode = "subscription" /\ session.subRef = "object"
  THEN tsFromSec(session.subPeriodEnd)
  ELSE Null

premiumUntilTs(session, sub) ==
  IF session.mode = "subscription" /\ session.subRef # "none"
  THEN IF session.subRef = "id" /\ sub # "ok" THEN Null
       ELSE tsFromSec(session.subPeriodEnd)
  ELSE Null

PatchUpdated(sub) ==
  Merge([cancelPending |-> IF willCancel(sub) THEN CancelTrue ELSE CancelNull,
         cancelAt |-> tsFromSec(cancelAtSec(sub))],
        Opt(sub.current_period_end # 0,
            [premiumUntil |-> tsFromSec(sub.current_period_end)]))

(* a checkout patch that always names premiumUntil, null when unknown      *)
PatchCheckoutNullsExpiry(session, sub, t) ==
  Merge(Merge([premium |-> TRUE, premiumSince |-> t,
               premiumUntil |-> premiumUntilTs(session, sub),
               cancelPending |-> CancelNull, cancelAt |-> Null],
              Opt(session.customer # NoCust, [stripeCustomerId |-> session.customer])),
        Opt(session.subRef # "none", [lastSubscriptionId |-> session.subId]))

PatchCheckout(session, sub, t) ==
  Merge(Merge(Merge([premium |-> TRUE, premiumSince |-> t,
                     cancelPending |-> CancelNull, cancelAt |-> Null],
                    Opt(premiumUntilTs(session, sub) # Null,
                        [premiumUntil |-> premiumUntilTs(session, sub)])),
              Opt(session.customer # NoCust, [stripeCustomerId |-> session.customer])),
        Opt(session.subRef # "none", [lastSubscriptionId |-> session.subId]))

PatchInvoice(inv) == [premium |-> TRUE, premiumUntil |-> tsFromSec(periodEndSec(inv))]

(* a cancellation that leaves the stored expiry in place                   *)
PatchDeletedKeepsExpiry ==
  [premium |-> FALSE, cancelPending |-> CancelNull, cancelAt |-> Null]

PatchDeleted ==
  [premium |-> FALSE, premiumUntil |-> Null, cancelPending |-> CancelNull,
   cancelAt |-> Null]

Patch(ev, sub, t) ==
  CASE ev.type = "customer.subscription.updated" -> PatchUpdated(ev)
    [] ev.type = "checkout.session.completed" -> PatchCheckout(ev, sub, t)
    [] ev.type = "invoice.payment_succeeded" -> PatchInvoice(ev)
    [] ev.type = "customer.subscription.deleted" -> PatchDeleted
    [] OTHER -> EmptyDoc

(* a handler that links the premium menu after every subscription update  *)
MenuForUpdateAlwaysPremium(ev) ==
  CASE ev.type = "customer.subscription.deleted" -> RICHMENU_ID_REGULAR
    [] ev.type \in {"customer.subscription.updated", "checkout.session.completed",
                    "invoice.payment_succeeded"} -> RICHMENU_ID_PREMIUM
    [] OTHER -> NoMenu

MenuFor(ev) ==
  CASE ev.type = "customer.subscription.updated" ->
         IF willCancel(ev) THEN RICHMENU_ID_REGULAR ELSE RICHMENU_ID_PREMIUM
    [] ev.type = "checkout.session.completed" -> RICHMENU_ID_PREMIUM
    [] ev.type = "invoice.payment_succeeded" -> RICHMENU_ID_PREMIUM
    [] ev.type = "customer.subscription.deleted" -> RICHMENU_ID_REGULAR
    [] OTHER -> NoMenu

(***************************************************************************)
(* Webhook receivers.  A request is a record                               *)
(*   ch, sig      the endpoint and the signature header of the request     *)
(*   event        the event constructEvent returned (NoEvent before that)  *)
(*   pc           the call whose completion the handler awaits             *)
(*   resp         the statuses sent on res, in order                       *)
(*   userId, sub  locals of handleStripeEvent / the resolvers              *)
(* and, for the record only (never read by an action),                     *)
(*   parsed       constructEvent was called                                *)
(*   gate         ledger status of the event when the request arrived      *)
(*   entered      handleStripeEvent was called                             *)
(*   reads, ledgerWrites, userWrites   store calls completed so far        *)
(*   link         rich menu requested for userId (NoMenu when none)        *)
(*   threw        the call whose exception reached the catch block ("" when *)
(*                none did)                                                *)
(***************************************************************************)
Channels == {"/webhook", "/webhook-cli"}

Signatures == {"none", "bad", "prod", "cli"}

(* a verification that accepts any signature header                        *)
constructEventAnySignature(ch, sig) == sig # "none"

(* stripe.webhooks.constructEvent(req.body, sig, secret) returns           *)
constructEvent(ch, sig) ==
  \/ ch = "/webhook" /\ sig = "prod"
  \/ ch = "/webhook-cli" /\ sig = "cli"

LedgerStatus(coll, id) ==
  IF ~Exists(coll, id) THEN "fresh"
  ELSE IF Has(coll[id], "processedAt") /\ coll[id].processedAt # Null THEN "processed"
  ELSE IF Has(coll[id], "lockedAt") /\ coll[id].lockedAt # Null THEN "locked"
  ELSE "fresh"

(* a gate that skips only an event locked by an unfinished attempt         *)
AlreadyHandledLockedOnly(coll, id) ==
  /\ Exists(coll, id)
  /\ Has(coll[id], "lockedAt") /\ coll[id].lockedAt # Null
  /\ ~(Has(coll[id], "processedAt") /\ coll[id].processedAt # Null)

(* a gate that skips only an event whose handling was completed            *)
AlreadyHandledProcessedOnly(coll, id) ==
  /\ Exists(coll, id)
  /\ Has(coll[id], "processedAt") /\ coll[id].processedAt # Null

(* seen.exists && (seen.data()?.processedAt || seen.data()?.lockedAt)      *)
AlreadyHandled(coll, id) ==
  /\ Exists(coll, id)
  /\ \/ Has(coll[id], "processedAt") /\ coll[id].processedAt # Null
     \/ Has(coll[id], "lockedAt") /\ coll[id].lockedAt # Null

(* a catch block that answers without looking at res.headersSent           *)
CaughtAlwaysResponds(resp) == Append(resp, 400)

(* catch (err) { if (!res.headersSent) res.status(400).send(...) }         *)
Caught(resp) == IF Len(resp) = 0 THEN Append(resp, 400) ELSE resp

NewReq(ch, sig) ==
  [ch |-> ch, sig |-> sig, event |-> NoEvent, pc |-> "done", resp |-> <<>>,
   userId |-> NoUser, sub |-> "unfetched", parsed |-> FALSE, gate |-> "fresh",
   entered |-> FALSE, reads |-> 0, ledgerWrites |-> 0, userWrites |-> 0,
   link |-> NoMenu, threw |-> ""]

Replace(r, r2) == (reqs (-) SetToBag({r})) (+) SetToBag({r2})

InFlight == BagToSet(reqs)

(* a dispatcher that throws when no user was resolved                      *)
AfterResolveThrowsUnresolved(ev, userId) ==
  IF userId = NoUser THEN "done"
  ELSE IF ev.type = "invoice.payment_succeeded" /\ periodEndSec(ev) = 0 THEN "mark"
  ELSE IF /\ ev.type = "checkout.session.completed"
          /\ ev.mode = "subscription" /\ ev.subRef = "id" THEN "retrieve"
  ELSE "write"

(* the call handleStripeEvent awaits once the user id is known             *)
AfterResolve(ev, userId) ==
  IF userId = NoUser THEN "mark"
  ELSE IF ev.type = "invoice.payment_succeeded" /\ periodEndSec(ev) = 0 THEN "mark"
  ELSE IF /\ ev.type = "checkout.session.completed"
          /\ ev.mode = "subscription" /\ ev.subRef = "id" THEN "retrieve"
  ELSE "write"

(* resolveUserIdFromCustomerId without a customer id returns null at once  *)
ViaCustomer(ev) ==
  IF ev.customer = NoCust THEN [pc |-> "mark", userId |-> NoUser]
  ELSE [pc |-> "query", userId |-> NoUser]

Known(ev, userId) == [pc |-> AfterResolve(ev, userId), userId |-> userId]

(* a dispatcher whose default case handles the object as a subscription    *)
DispatchDefaultAsSubscription(ev) ==
  CASE ev.type = "checkout.session.completed" -> Known(ev, ev.metaUser)
    [] ev.type = "invoice.payment_succeeded" ->
         IF ev.metaUser # NoUser THEN Known(ev, ev.metaUser)
         ELSE IF ev.subRef = "id" THEN [pc |-> "retrieve", userId |-> NoUser]
         ELSE IF ev.subRef = "object" /\ ev.subMetaUser # NoUser
              THEN Known(ev, ev.subMetaUser)
         ELSE ViaCustomer(ev)
    [] OTHER -> IF ev.metaUser # NoUser THEN Known(ev, ev.metaUser) ELSE ViaCustomer(ev)

(* a dispatcher whose checkout case falls back to the customer id         *)
DispatchCheckoutByCustomer(ev) ==
  CASE ev.type \in {"customer.subscription.updated", "customer.subscription.deleted",
                    "checkout.session.completed"} ->
         IF ev.metaUser # NoUser THEN Known(ev, ev.metaUser) ELSE ViaCustomer(ev)
    [] ev.type = "invoice.payment_succeeded" ->
         IF ev.metaUser # NoUser THEN Known(ev, ev.metaUser)
         ELSE IF ev.subRef = "id" THEN [pc |-> "retrieve", userId |-> NoUser]
         ELSE IF ev.subRef = "object" /\ ev.subMetaUser # NoUser
              THEN Known(ev, ev.subMetaUser)
         ELSE ViaCustomer(ev)
    [] OTHER -> [pc |-> "mark", userId |-> NoUser]

(* a dispatcher that rejects the event types it has no case for           *)
DispatchDefaultThrows(ev) ==
  CASE ev.type \in {"customer.subscription.updated", "customer.subscription.deleted"} ->
         IF ev.metaUser # NoUser THEN Known(ev, ev.metaUser) ELSE ViaCustomer(ev)
    [] ev.type = "checkout.session.completed" -> Known(ev, ev.metaUser)
    [] ev.type = "invoice.payment_succeeded" ->
         IF ev.metaUser # NoUser THEN Known(ev, ev.metaUser)
         ELSE IF ev.subRef = "id" THEN [pc |-> "retrieve", userId |-> NoUser]
         ELSE IF ev.subRef = "object" /\ ev.subMetaUser # NoUser
              THEN Known(ev, ev.subMetaUser)
         ELSE ViaCustomer(ev)
    [] OTHER -> [pc |-> "done", userId |-> NoUser]

(* handleStripeEvent up to its first await                                 *)
Dispatch(ev) ==
  CASE ev.type \in {"customer.subscription.updated", "customer.subscription.deleted"} ->
         IF ev.metaUser # NoUser THEN Known(ev, ev.metaUser) ELSE ViaCustomer(ev)
    [] ev.type = "checkout.session.completed" -> Known(ev, ev.metaUser)
    [] ev.type = "invoice.payment_succeeded" ->
         IF ev.metaUser # NoUser THEN Known(ev, ev.metaUser)
         ELSE IF ev.subRef = "id" THEN [pc |-> "retrieve", userId |-> NoUser]
         ELSE IF ev.subRef = "object" /\ ev.subMetaUser # NoUser
              THEN Known(ev, ev.subMetaUser)
         ELSE ViaCustomer(ev)
    [] OTHER -> [pc |-> "mark", userId |-> NoUser]

(* a resolver that reads the tag of a subscription it failed to retrieve   *)
AfterRetrieveIgnoringFailure(ev, ok) ==
  IF ev.type = "checkout.session.completed" THEN [pc |-> "write", userId |-> ev.metaUser]
  ELSE IF ev.subMetaUser # NoUser THEN Known(ev, ev.subMetaUser)
  ELSE ViaCustomer(ev)

(* resolveUserIdFromInvoice after stripe.subscriptions.retrieve            *)
AfterRetrieve(ev, ok) ==
  IF ev.type = "checkout.session.completed" THEN [pc |-> "write", userId |-> ev.metaUser]
  ELSE IF ok /\ ev.subMetaUser # NoUser THEN Known(ev, ev.subMetaUser)
  ELSE ViaCustomer(ev)

(***************************************************************************)
(* One delivery handled from lock to mark with no store failure, as a      *)
(* function of the users collection: the user ids the resolvers can return *)
(* and the collections handleStripeEvent can leave.  subOk is the outcome  *)
(* of stripe.subscriptions.retrieve where the handler calls it.            *)
(***************************************************************************)
Resolved(coll, ev, subOk) ==
  LET d == Dispatch(ev)
      a == IF d.pc = "retrieve" THEN AfterRetrieve(ev, subOk) ELSE d
  IN IF a.pc = "query" THEN resolveUserIdFromCustomerId(coll, ev.customer)
     ELSE {a.userId}

Processed(coll, ev, subOk, t) ==
  {IF AfterResolve(ev, u) = "mark" THEN coll
   ELSE SetMerge(coll, u, Patch(ev, IF subOk THEN "ok" ELSE "failed", t)) :
     u \in Resolved(coll, ev, subOk)}

(* a receiver without the check for a missing signature header            *)
AcceptWithoutHeaderCheck(ch, sig, ev) ==
  /\ IF ~constructEvent(ch, sig)
     THEN reqs' = reqs (+) SetToBag({[NewReq(ch, sig) EXCEPT
                                        !.parsed = TRUE, !.resp = Caught(<<>>),
                                        !.threw = "constructEvent"]})
     ELSE reqs' = reqs (+) SetToBag({[NewReq(ch, sig) EXCEPT
                                        !.parsed = TRUE, !.event = ev,
                                        !.resp = <<200>>, !.pc = "get",
                                        !.gate = LedgerStatus(ledger, ev.id)]})
  /\ UNCHANGED <<users, ledger, now, lastRead, chats, usage>>

(* a receiver that answers only once the event has been handled            *)
AcceptRespondsLate(ch, sig, ev) ==
  /\ IF sig = "none"
     THEN reqs' = reqs (+) SetToBag({[NewReq(ch, sig) EXCEPT !.resp = <<403>>]})
     ELSE IF ~constructEvent(ch, sig)
     THEN reqs' = reqs (+) SetToBag({[NewReq(ch, sig) EXCEPT
                                        !.parsed = TRUE, !.resp = Caught(<<>>),
                                        !.threw = "constructEvent"]})
     ELSE reqs' = reqs (+) SetToBag({[NewReq(ch, sig) EXCEPT
                                        !.parsed = TRUE, !.event = ev, !.pc = "get",
                                        !.gate = LedgerStatus(ledger, ev.id)]})
  /\ UNCHANGED <<users, ledger, now, lastRead, chats, usage>>

(* the receiver up to its first await: lines 336-354 and 381-392           *)
Accept(ch, sig, ev) ==
  /\ IF sig = "none"
     THEN reqs' = reqs (+) SetToBag({[NewReq(ch, sig) EXCEPT !.resp = <<403>>]})
     ELSE IF ~constructEvent(ch, sig)
     THEN reqs' = reqs (+) SetToBag({[NewReq(ch, sig) EXCEPT
                                        !.parsed = TRUE, !.resp = Caught(<<>>),
                                        !.threw = "constructEvent"]})
     ELSE reqs' = reqs (+) SetToBag({[NewReq(ch, sig) EXCEPT
                                        !.parsed = TRUE, !.event = ev,
                                        !.resp = <<200>>, !.pc = "get",
                                        !.gate = LedgerStatus(ledger, ev.id)]})
  /\ UNCHANGED <<users, ledger, now, lastRead, chats, usage>>

(* a delivery, at any moment, concurrent with the handlers in flight       *)
Receive(ch, sig, ev) ==
  /\ BagCardinality(reqs) < MaxReq
  /\ Accept(ch, sig, ev)

Idle == \A r \in InFlight : r.pc = "done"

(* a delivery that arrives once the earlier handlers have returned; the    *)
(* ledger holds the records of at most MaxSeq events                       *)
ReceiveSeq(ch, sig, ev) ==
  /\ reqs = EmptyBag
  /\ Exists(ledger, ev.id) \/ Cardinality(DOMAIN ledger) < MaxSeq
  /\ Accept(ch, sig, ev)

(* the handler returns: nothing of the request is left                     *)
Return(r) ==
  /\ r.pc = "done"
  /\ reqs' = reqs (-) SetToBag({r})
  /\ UNCHANGED <<users, ledger, now, lastRead, chats, usage>>

IsSeed(r) == r.event \in Seeds

IsProbe(r) == r.event.id = ProbeId

SeedsReceived == BagCardinality([r \in {x \in InFlight : IsSeed(x)} |-> reqs[r]])

(* a checkout that links a user to a customer, before the probe arrives    *)
ReceiveSeed(ev) ==
  /\ Idle
  /\ \A r \in InFlight : ~IsProbe(r)
  /\ SeedsReceived < MaxSeed
  /\ Accept("/webhook", "prod", ev)

(* the one delivery whose identity resolution is observed                  *)
ReceiveProbe(ev) ==
  /\ Idle
  /\ \A r \in InFlight : ~IsProbe(r)
  /\ Accept("/webhook", "prod", ev)

(* a CLI receiver that handles every event it verifies                     *)
LedgerGetCliUngated(r, ok) ==
  /\ r.pc = "get"
  /\ IF ~ok
     THEN reqs' = Replace(r, [r EXCEPT !.pc = "done", !.resp = Caught(r.resp),
                                       !.threw = "get"])
     ELSE reqs' = Replace(r, [r EXCEPT
                    !.reads = @ + 1,
                    !.pc = IF r.ch = "/webhook" /\ AlreadyHandled(ledger, r.event.id)
                           THEN "done" ELSE "lock"])
  /\ UNCHANGED <<users, ledger, now, lastRead, chats, usage>>

LedgerGet(r, ok) ==
  /\ r.pc = "get"
  /\ IF ~ok
     THEN reqs' = Replace(r, [r EXCEPT !.pc = "done", !.resp = Caught(r.resp),
                                       !.threw = "get"])
     ELSE reqs' = Replace(r, [r EXCEPT
                    !.reads = @ + 1,
                    !.pc = IF AlreadyHandled(ledger, r.event.id) THEN "done" ELSE "lock"])
  /\ UNCHANGED <<users, ledger, now, lastRead, chats, usage>>

(* a receiver that enters handleStripeEvent without writing the lock       *)
LedgerLockSkipped(r, ok) ==
  /\ r.pc = "lock"
  /\ IF ~ok
     THEN reqs' = Replace(r, [r EXCEPT !.pc = "done", !.resp = Caught(r.resp),
                                       !.threw = "lock"])
     ELSE reqs' = Replace(r, [r EXCEPT
                    !.entered = TRUE,
                    !.pc = Dispatch(r.event).pc,
                    !.userId = Dispatch(r.event).userId])
  /\ UNCHANGED <<users, ledger, now, lastRead, chats, usage>>

LedgerLock(r, ok) ==
  /\ r.pc = "lock"
  /\ IF ~ok
     THEN /\ reqs' = Replace(r, [r EXCEPT !.pc = "done", !.resp = Caught(r.resp),
                                          !.threw = "lock"])
          /\ UNCHANGED ledger
     ELSE /\ ledger' = SetMerge(ledger, r.event.id,
                                [lockedAt |-> now, type |-> r.event.type])
          /\ reqs' = Replace(r, [r EXCEPT
                       !.ledgerWrites = @ + 1, !.entered = TRUE,
                       !.pc = Dispatch(r.event).pc,
                       !.userId = Dispatch(r.event).userId])
  /\ UNCHANGED <<users, now, lastRead, chats, usage>>

Retrieve(r, ok) ==
  /\ r.pc = "retrieve"
  /\ reqs' = Replace(r, [r EXCEPT
               !.sub = IF ok THEN "ok" ELSE "failed",
               !.pc = AfterRetrieve(r.event, ok).pc,
               !.userId = AfterRetrieve(r.event, ok).userId])
  /\ UNCHANGED <<users, ledger, now, lastRead, chats, usage>>

Query(r, ok) ==
  /\ r.pc = "query"
  /\ IF ~ok
     THEN reqs' = Replace(r, [r EXCEPT !.pc = "done", !.resp = Caught(r.resp),
                                       !.threw = "query"])
     ELSE \E u \in resolveUserIdFromCustomerId(users, r.event.customer) :
            reqs' = Replace(r, [r EXCEPT
                      !.reads = @ + 1, !.userId = u,
                      !.pc = AfterResolve(r.event, u)])
  /\ UNCHANGED <<users, ledger, now, lastRead, chats, usage>>

(* a handler that patches every document with the customer of the event   *)
WriteAllMatches(r, ok) ==
  /\ r.pc = "write"
  /\ IF ~ok
     THEN /\ reqs' = Replace(r, [r EXCEPT !.pc = "done", !.resp = Caught(r.resp),
                                          !.threw = "write"])
          /\ UNCHANGED users
     ELSE /\ users' =
               LET targets == {r.userId} \cup CustomerMatches(users, r.event.customer)
               IN [u \in DOMAIN users \cup targets |->
                     IF u \in targets
                     THEN SetMerge(users, u, Patch(r.event, r.sub, now))[u]
                     ELSE users[u]]
          /\ reqs' = Replace(r, [r EXCEPT !.userWrites = @ + 1, !.pc = "link"])
  /\ UNCHANGED <<ledger, now, lastRead, chats, usage>>

(* a handler that logs a failed users write and goes on to the mark        *)
WriteFailureSwallowed(r, ok) ==
  /\ r.pc = "write"
  /\ IF ~ok
     THEN /\ reqs' = Replace(r, [r EXCEPT !.pc = "mark", !.threw = "write"])
          /\ UNCHANGED users
     ELSE /\ users' = SetMerge(users, r.userId, Patch(r.event, r.sub, now))
          /\ reqs' = Replace(r, [r EXCEPT !.userWrites = @ + 1, !.pc = "link"])
  /\ UNCHANGED <<ledger, now, lastRead, chats, usage>>

Write(r, ok) ==
  /\ r.pc = "write"
  /\ IF ~ok
     THEN /\ reqs' = Replace(r, [r EXCEPT !.pc = "done", !.resp = Caught(r.resp),
                                          !.threw = "write"])
          /\ UNCHANGED users
     ELSE /\ users' = SetMerge(users, r.userId, Patch(r.event, r.sub, now))
          /\ reqs' = Replace(r, [r EXCEPT !.userWrites = @ + 1, !.pc = "link"])
  /\ UNCHANGED <<ledger, now, lastRead, chats, usage>>

(* a linkRichMenuIdToUser that lets the failure of the call through        *)
LinkFailureThrows(r, ok) ==
  /\ r.pc = "link"
  /\ IF ~ok
     THEN reqs' = Replace(r, [r EXCEPT !.pc = "done", !.resp = Caught(r.resp),
                                       !.threw = "link"])
     ELSE reqs' = Replace(r, [r EXCEPT !.link = MenuFor(r.event), !.pc = "mark"])
  /\ UNCHANGED <<users, ledger, now, lastRead, chats, usage>>

(* linkRichMenuIdToUser: a failed call is logged and swallowed             *)
Link(r, ok) ==
  /\ r.pc = "link"
  /\ reqs' = Replace(r, [r EXCEPT
               !.link = IF ok THEN MenuFor(r.event) ELSE NoMenu, !.pc = "mark"])
  /\ UNCHANGED <<users, ledger, now, lastRead, chats, usage>>

(* a mark written without merge: the record is replaced                   *)
MarkOverwrites(r, ok) ==
  /\ r.pc = "mark"
  /\ IF ~ok
     THEN /\ reqs' = Replace(r, [r EXCEPT !.pc = "done", !.resp = Caught(r.resp),
                                          !.threw = "mark"])
          /\ UNCHANGED ledger
     ELSE /\ ledger' = [e \in DOMAIN ledger \cup {r.event.id} |->
                          IF e = r.event.id THEN [processedAt |-> now] ELSE ledger[e]]
          /\ reqs' = Replace(r, [r EXCEPT !.ledgerWrites = @ + 1, !.pc = "done"])
  /\ UNCHANGED <<users, now, lastRead, chats, usage>>

Mark(r, ok) ==
  /\ r.pc = "mark"
  /\ IF ~ok
     THEN /\ reqs' = Replace(r, [r EXCEPT !.pc = "done", !.resp = Caught(r.resp),
                                          !.threw = "mark"])
          /\ UNCHANGED ledger
     ELSE /\ ledger' = SetMerge(ledger, r.event.id, [processedAt |-> now])
          /\ reqs' = Replace(r, [r EXCEPT !.ledgerWrites = @ + 1, !.pc = "done"])
  /\ UNCHANGED <<users, now, lastRead, chats, usage>>

Tick ==
  /\ now < MaxTime
  /\ now' = now + 1
  /\ UNCHANGED <<users, ledger, reqs, lastRead, chats, usage>>

(***************************************************************************)
(* Read paths                                                              *)
(***************************************************************************)
Undefined == [undefined |-> TRUE]

JsonNull == [null |-> TRUE]

(* Date.prototype.toISOString of a Firestore timestamp                     *)
ISOString(ts) == [iso |-> ts]

toISO(doc, f) == IF Has(doc, f) /\ doc[f] # Null THEN ISOString(doc[f]) ELSE JsonNull

(* an entitlement that still counts at the instant it expires              *)
isPremiumThroughExpiry(data, t) ==
  IF data = Undefined THEN FALSE
  ELSE IF ~(Has(data, "premium") /\ data.premium) THEN FALSE
  ELSE IF ~(Has(data, "premiumUntil") /\ data.premiumUntil # Null) THEN TRUE
  ELSE data.premiumUntil >= t

(* isPremiumFromData, with Date.now() = t                                  *)
isPremiumFromData(data, t) ==
  IF data = Undefined THEN FALSE
  ELSE IF ~(Has(data, "premium") /\ data.premium) THEN FALSE
  ELSE IF ~(Has(data, "premiumUntil") /\ data.premiumUntil # Null) THEN TRUE
  ELSE data.premiumUntil > t

NoRead == [src |-> "", id |-> "", status |-> 0, body |-> EmptyDoc,
           data |-> Undefined, at |-> 0]

(* a projection that reports the stored flag                               *)
UserViewStoredFlag(data, t) ==
  [exists |-> TRUE,
   premium |-> Has(data, "premium") /\ data.premium,
   premiumSince |-> toISO(data, "premiumSince"),
   premiumUntil |-> toISO(data, "premiumUntil"),
   cancelPending |-> Has(data, "cancelPending") /\ data.cancelPending = CancelTrue,
   cancelAt |-> toISO(data, "cancelAt")]

(* the body of the 200 response of GET /api/user/:id: lines 652-659        *)
UserView(data, t) ==
  [exists |-> TRUE,
   premium |-> isPremiumFromData(data, t),
   premiumSince |-> toISO(data, "premiumSince"),
   premiumUntil |-> toISO(data, "premiumUntil"),
   cancelPending |-> Has(data, "cancelPending") /\ data.cancelPending = CancelTrue,
   cancelAt |-> toISO(data, "cancelAt")]

DefaultView ==
  [exists |-> FALSE, premium |-> FALSE, premiumSince |-> JsonNull,
   premiumUntil |-> JsonNull, cancelPending |-> FALSE, cancelAt |-> JsonNull]

(* GET /api/user/:id of src/index.js                                       *)
GetUser(id, ok) ==
  /\ lastRead = NoRead
  /\ lastRead' =
       IF ~ok
       THEN [src |-> "index.js", id |-> id, status |-> 500,
             body |-> [error |-> "internal_error"], data |-> Undefined, at |-> now]
       ELSE IF ~Exists(users, id)
       THEN [src |-> "index.js", id |-> id, status |-> 404,
             body |-> [exists |-> FALSE], data |-> Undefined, at |-> now]
       ELSE [src |-> "index.js", id |-> id, status |-> 200,
             body |-> UserView(users[id], now), data |-> users[id], at |-> now]
  /\ UNCHANGED <<users, ledger, now, reqs, chats, usage>>

(* GET /api/user/:id of the later server file (unnamed/part_002:1139)      *)
GetUserNoCache(id, ok) ==
  /\ lastRead = NoRead
  /\ lastRead' =
       IF ~ok
       THEN [src |-> "part_002", id |-> id, status |-> 500,
             body |-> [error |-> "internal_error"], data |-> Undefined, at |-> now]
       ELSE IF ~Exists(users, id)
       THEN [src |-> "part_002", id |-> id, status |-> 200,
             body |-> DefaultView, data |-> Undefined, at |-> now]
       ELSE [src |-> "part_002", id |-> id, status |-> 200,
             body |-> UserView(users[id], now), data |-> users[id], at |-> now]
  /\ UNCHANGED <<users, ledger, now, reqs, chats, usage>>

(* the other endpoints; their responses are records like those of          *)
(* GET /api/user/:id, with data = Undefined.  ok: no call of the endpoint  *)
(* throws.  A missing query or body parameter is the id NoUser.            *)
Response(src, id, status, body) ==
  [src |-> src, id |-> id, status |-> status, body |-> body,
   data |-> Undefined, at |-> now]

(* GET /billing-portal                                                     *)
BillingPortal(id, ok) ==
  /\ lastRead = NoRead
  /\ lastRead' =
       IF id = NoUser
       THEN Response("billing-portal", id, 400, [error |-> "missing userId"])
       ELSE IF ~ok
       THEN Response("billing-portal", id, 500, [error |-> "portal_error"])
       ELSE IF ~Exists(users, id)
       THEN Response("billing-portal", id, 404, [error |-> "user not found"])
       ELSE IF ~Has(users[id], "stripeCustomerId")
       THEN Response("billing-portal", id, 400, [error |-> "customer not linked"])
       ELSE Response("billing-portal", id, 302,
                     [customer |-> users[id].stripeCustomerId])
  /\ UNCHANGED <<users, ledger, now, reqs, chats, usage>>

(* POST /create-checkout-session and /create-checkout-session/liff: the    *)
(* session is created with metadata.userId, nothing is stored              *)
CreateCheckoutSession(id, liff, ok) ==
  /\ lastRead = NoRead
  /\ lastRead' =
       IF liff /\ id = NoUser
       THEN Response("create-checkout-session", id, 400, [error |-> "missing idToken"])
       ELSE IF ~ok
       THEN Response("create-checkout-session", id, IF liff THEN 401 ELSE 500,
                     [error |-> "failed"])
       ELSE Response("create-checkout-session", id, 200,
                     [metadata |-> IF id = NoUser THEN "demo-user" ELSE id])
  /\ UNCHANGED <<users, ledger, now, reqs, chats, usage>>

(* POST /api/resolve-user: the id token of user id, verified or not        *)
ResolveUser(id, ok) ==
  /\ lastRead = NoRead
  /\ lastRead' =
       IF id = NoUser
       THEN Response("resolve-user", id, 400, [error |-> "missing idToken"])
       ELSE IF ~ok
       THEN Response("resolve-user", id, 401, [error |-> "invalid_token"])
       ELSE Response("resolve-user", id, 200, [userId |-> id])
  /\ UNCHANGED <<users, ledger, now, reqs, chats, usage>>

(* POST /admin/switch-richmenu with the admin key: links the rich menu of  *)
(* the plan and adds an audit record to admin_actions                      *)
AdminSwitchRichmenu(id, plan, key) ==
  /\ lastRead = NoRead
  /\ lastRead' =
       IF ~key
       THEN Response("switch-richmenu", id, 403, [error |-> "forbidden"])
       ELSE IF id = NoUser
       THEN Response("switch-richmenu", id, 400, [error |-> "missing userId or plan"])
       ELSE Response("switch-richmenu", id, 200,
                     [linked |-> IF plan = "premium" THEN RICHMENU_ID_PREMIUM
                                 ELSE RICHMENU_ID_REGULAR])
  /\ UNCHANGED <<users, ledger, now, reqs, chats, usage>>

(* the client takes the response                                           *)
Respond ==
  /\ lastRead # NoRead
  /\ lastRead' = NoRead
  /\ UNCHANGED <<users, ledger, now, reqs, chats, usage>>

(***************************************************************************)
(* chatWithAiko behind POST /api/chat.  A chat is a record                 *)
(*   userId, pc, premium, dayKey   locals of chatWithAiko                  *)
(*   status, limited               the response (status 0: none yet)       *)
(*   data, at                      the users document read and the time of *)
(*                                 the read, for the record only           *)
(*   reply                         "limit", "fallback" or "completion"     *)
(*   incrs                         increments of usage_daily it has made   *)
(***************************************************************************)
LIMIT == 3

(* the day, in Japan (UTC+9), of clock value t; the clock counts half days *)
jstTodayKey(t) == (12 * t + 9) \div 24

UsageKey(userId, dayKey) == <<userId, dayKey>>

Used(coll, key) == IF Exists(coll, key) /\ Has(coll[key], "count") THEN coll[key].count ELSE 0

ReplaceChat(c, c2) == (chats (-) SetToBag({c})) (+) SetToBag({c2})

Chatting == BagToSet(chats)

NewChat(userId) ==
  [userId |-> userId, pc |-> "user", premium |-> FALSE,
   dayKey |-> 0, status |-> 0, limited |-> FALSE,
   data |-> Undefined, at |-> 0, reply |-> "", incrs |-> 0]

ChatStart(userId) ==
  /\ BagCardinality(chats) < MaxChat
  /\ chats' = chats (+) SetToBag({NewChat(userId)})
  /\ UNCHANGED <<users, ledger, now, reqs, lastRead, usage>>

(* a chat request, concurrent with the chats in flight                     *)
ChatArrive(userId) ==
  /\ BagCardinality(chats) < MaxReq
  /\ chats' = chats (+) SetToBag({NewChat(userId)})
  /\ UNCHANGED <<users, ledger, now, reqs, lastRead, usage>>

(* the response of a chat is taken                                         *)
ChatReturn(c) ==
  /\ c.pc = "done"
  /\ chats' = chats (-) SetToBag({c})
  /\ UNCHANGED <<users, ledger, now, reqs, lastRead, usage>>

ChatReadUser(c, ok) ==
  /\ c.pc = "user"
  /\ IF ~ok
     THEN chats' = ReplaceChat(c, [c EXCEPT !.pc = "done", !.status = 500])
     ELSE chats' = ReplaceChat(c, [c EXCEPT
                     !.premium = isPremiumFromData(Data(users, c.userId), now),
                     !.dayKey = jstTodayKey(now),
                     !.data = Data(users, c.userId), !.at = now,
                     !.pc = IF isPremiumFromData(Data(users, c.userId), now)
                            THEN "complete" ELSE "usage"])
  /\ UNCHANGED <<users, ledger, now, reqs, lastRead, usage>>

ChatReadUsage(c, ok) ==
  /\ c.pc = "usage"
  /\ IF ~ok
     THEN chats' = ReplaceChat(c, [c EXCEPT !.pc = "done", !.status = 500])
     ELSE IF Used(usage, UsageKey(c.userId, c.dayKey)) >= LIMIT
     THEN chats' = ReplaceChat(c, [c EXCEPT !.pc = "done", !.status = 429,
                                            !.limited = TRUE, !.reply = "limit"])
     ELSE chats' = ReplaceChat(c, [c EXCEPT !.pc = "complete"])
  /\ UNCHANGED <<users, ledger, now, reqs, lastRead, usage>>

(* a chat that counts the fallback reply like a completion                 *)
ChatCompleteCountsFallback(c, ok) ==
  /\ c.pc = "complete"
  /\ IF c.premium
     THEN chats' = ReplaceChat(c, [c EXCEPT !.pc = "done", !.status = 200,
                     !.reply = IF ok THEN "completion" ELSE "fallback"])
     ELSE chats' = ReplaceChat(c, [c EXCEPT !.pc = "incr",
                     !.reply = IF ok THEN "completion" ELSE "fallback"])
  /\ UNCHANGED <<users, ledger, now, reqs, lastRead, usage>>

ChatComplete(c, ok) ==
  /\ c.pc = "complete"
  /\ IF ~ok
     THEN chats' = ReplaceChat(c, [c EXCEPT !.pc = "done", !.status = 200,
                                            !.reply = "fallback"])
     ELSE IF c.premium
     THEN chats' = ReplaceChat(c, [c EXCEPT !.pc = "done", !.status = 200,
                                            !.reply = "completion"])
     ELSE chats' = ReplaceChat(c, [c EXCEPT !.pc = "incr", !.reply = "completion"])
  /\ UNCHANGED <<users, ledger, now, reqs, lastRead, usage>>

(* a chat that keeps the count of the day in the document of the user      *)
ChatIncrementInUsers(c, ok) ==
  /\ c.pc = "incr"
  /\ IF ~ok
     THEN /\ chats' = ReplaceChat(c, [c EXCEPT !.pc = "done", !.status = 500])
          /\ UNCHANGED users
     ELSE /\ users' = SetMerge(users, c.userId, [count |-> 1, dayKey |-> c.dayKey])
          /\ chats' = ReplaceChat(c, [c EXCEPT !.pc = "done", !.status = 200])
  /\ UNCHANGED <<ledger, now, reqs, lastRead, usage>>

ChatIncrement(c, ok) ==
  /\ c.pc = "incr"
  /\ IF ~ok
     THEN /\ chats' = ReplaceChat(c, [c EXCEPT !.pc = "done", !.status = 500])
          /\ UNCHANGED usage
     ELSE /\ usage' = SetMerge(usage, UsageKey(c.userId, c.dayKey),
                        [count |-> Used(usage, UsageKey(c.userId, c.dayKey)) + 1,
                         userId |-> c.userId, dayKey |-> c.dayKey, updatedAt |-> now])
          /\ chats' = ReplaceChat(c, [c EXCEPT !.pc = "done", !.status = 200,
                                               !.incrs = @ + 1])
  /\ UNCHANGED <<users, ledger, now, reqs, lastRead>>

(***************************************************************************)
(* Specifications                                                          *)
(***************************************************************************)
Init ==
  /\ users = EmptyDoc
  /\ ledger = EmptyDoc
  /\ now = 1
  /\ reqs = EmptyBag
  /\ lastRead = NoRead
  /\ chats = EmptyBag
  /\ usage = EmptyDoc

Handle ==
  \/ \E r \in InFlight, ok \in BOOLEAN : LedgerGet(r, ok)
  \/ \E r \in InFlight, ok \in BOOLEAN : LedgerLock(r, ok)
  \/ \E r \in InFlight, ok \in BOOLEAN : Retrieve(r, ok)
  \/ \E r \in InFlight, ok \in BOOLEAN : Query(r, ok)
  \/ \E r \in InFlight, ok \in BOOLEAN : Write(r, ok)
  \/ \E r \in InFlight, ok \in BOOLEAN : Link(r, ok)
  \/ \E r \in InFlight, ok \in BOOLEAN : Mark(r, ok)

(* concurrent deliveries to both receivers; the clock is held, the ledger  *)
(* timestamps being tested for presence only                               *)
Next ==
  \/ \E ch \in Channels, sig \in Signatures, ev \in Catalog : Receive(ch, sig, ev)
  \/ Handle

Spec == Init /\ [][Next]_vars

(* the store after a verified delivery of ev at time t was handled with no *)
(* failed store call, from store st = [users, ledger]                      *)
Delivered(st, ev, subOk, t) ==
  IF AlreadyHandled(st.ledger, ev.id) THEN {st}
  ELSE {[users |-> u,
         ledger |-> SetMerge(st.ledger, ev.id,
                             [lockedAt |-> t, type |-> ev.type, processedAt |-> t])] :
          u \in Processed(st.users, ev, subOk, t)}

(* the stores that up to k deliveries of events of ReadCatalog, handled    *)
(* one after the other at time 1, can leave                                *)
RECURSIVE StoresAfter(_)
StoresAfter(k) ==
  IF k = 0 THEN {[users |-> EmptyDoc, ledger |-> EmptyDoc]}
  ELSE StoresAfter(k - 1) \cup
       UNION {Delivered(st, ev, subOk, 1) :
                st \in StoresAfter(k - 1), ev \in ReadCatalog, subOk \in BOOLEAN}

InitRead ==
  /\ \E st \in StoresAfter(MaxSeq) : users = st.users /\ ledger = st.ledger
  /\ now = 1
  /\ reqs = EmptyBag
  /\ lastRead = NoRead
  /\ chats = EmptyBag
  /\ usage = EmptyDoc

(* the read paths over such a collection, and the clock; the response of   *)
(* GET /api/user/:id is taken before anything else happens                 *)
NextRead ==
  \/ lastRead = NoRead /\ Tick
  \/ \E id \in UserIds, ok \in BOOLEAN : GetUser(id, ok)
  \/ \E id \in UserIds, ok \in BOOLEAN : GetUserNoCache(id, ok)
  \/ Respond
  \/ lastRead = NoRead /\ \E id \in UserIds : ChatStart(id)
  \/ lastRead = NoRead /\ \E c \in Chatting, ok \in BOOLEAN : ChatReadUser(c, ok)
  \/ lastRead = NoRead /\ \E c \in Chatting, ok \in BOOLEAN : ChatReadUsage(c, ok)
  \/ lastRead = NoRead /\ \E c \in Chatting, ok \in BOOLEAN : ChatComplete(c, ok)
  \/ lastRead = NoRead /\ \E c \in Chatting, ok \in BOOLEAN : ChatIncrement(c, ok)

SpecRead == InitRead /\ [][NextRead]_vars

(* checkouts handled one after the other with no failed call, then one     *)
(* event of any identity shape, whose calls may fail                       *)
NextResolve ==
  \/ \E ev \in Seeds : ReceiveSeed(ev)
  \/ \E ev \in Probes : ReceiveProbe(ev)
  \/ \E r \in InFlight, ok \in BOOLEAN : (ok \/ IsProbe(r)) /\ LedgerGet(r, ok)
  \/ \E r \in InFlight, ok \in BOOLEAN : (ok \/ IsProbe(r)) /\ LedgerLock(r, ok)
  \/ \E r \in InFlight, ok \in BOOLEAN : (ok \/ IsProbe(r)) /\ Retrieve(r, ok)
  \/ \E r \in InFlight, ok \in BOOLEAN : (ok \/ IsProbe(r)) /\ Query(r, ok)
  \/ \E r \in InFlight, ok \in BOOLEAN : (ok \/ IsProbe(r)) /\ Write(r, ok)
  \/ \E r \in InFlight, ok \in BOOLEAN : (ok \/ IsProbe(r)) /\ Link(r, ok)
  \/ \E r \in InFlight, ok \in BOOLEAN : (ok \/ IsProbe(r)) /\ Mark(r, ok)

SpecResolve == Init /\ [][NextResolve]_vars

(* deliveries to /webhook handled one after the other, any call of a       *)
(* handler failing or not; the clock advances between deliveries           *)
NextSeq ==
  \/ \E ev \in SeqCatalog : ReceiveSeq("/webhook", "prod", ev)
  \/ Handle
  \/ \E r \in InFlight : Return(r)
  \/ reqs = EmptyBag /\ Tick

SpecSeq == Init /\ [][NextSeq]_vars

(* the events of the whole server, one request at a time: deliveries to    *)
(* /webhook, the read and session endpoints and the chat                   *)
EndpointCatalog == {EvCheckout1, EvUpdated1, EvDeleted1}

Serving == reqs = EmptyBag /\ lastRead = NoRead /\ \A c \in Chatting : c.pc = "done"

NextEndpoints ==
  \/ \E ev \in EndpointCatalog : Serving /\ ReceiveSeq("/webhook", "prod", ev)
  \/ Handle
  \/ \E r \in InFlight : Return(r)
  \/ \E id \in UserIds, ok \in BOOLEAN : Serving /\ GetUser(id, ok)
  \/ \E id \in UserIds \cup {NoUser}, ok \in BOOLEAN : Serving /\ BillingPortal(id, ok)
  \/ \E id \in UserIds \cup {NoUser}, liff \in BOOLEAN, ok \in BOOLEAN :
       Serving /\ CreateCheckoutSession(id, liff, ok)
  \/ \E id \in UserIds \cup {NoUser}, ok \in BOOLEAN : Serving /\ ResolveUser(id, ok)
  \/ \E id \in UserIds \cup {NoUser}, plan \in {"premium", "regular"}, key \in BOOLEAN :
       Serving /\ AdminSwitchRichmenu(id, plan, key)
  \/ Respond
  \/ \E id \in UserIds : Serving /\ ChatStart(id)
  \/ \E c \in Chatting, ok \in BOOLEAN : ChatReadUser(c, ok)
  \/ \E c \in Chatting, ok \in BOOLEAN : ChatReadUsage(c, ok)
  \/ \E c \in Chatting, ok \in BOOLEAN : ChatComplete(c, ok)
  \/ \E c \in Chatting, ok \in BOOLEAN : ChatIncrement(c, ok)

SpecEndpoints == Init /\ [][NextEndpoints]_vars

(* verified deliveries to both receivers with no failing call; the event   *)
(* loop runs every continuation whose awaited call has returned            *)
LiveCatalog == {EvCheckout1, EvCheckoutNoTag, EvInvoice1, EvUpdated1, EvOther1}

SecretOf(ch) == IF ch = "/webhook" THEN "prod" ELSE "cli"

HandleOk ==
  \/ \E r \in InFlight : LedgerGet(r, TRUE)
  \/ \E r \in InFlight : LedgerLock(r, TRUE)
  \/ \E r \in InFlight : Retrieve(r, TRUE)
  \/ \E r \in InFlight : Query(r, TRUE)
  \/ \E r \in InFlight : Write(r, TRUE)
  \/ \E r \in InFlight : Link(r, TRUE)
  \/ \E r \in InFlight : Mark(r, TRUE)

NextLive ==
  \/ \E ch \in Channels, ev \in LiveCatalog : Receive(ch, SecretOf(ch), ev)
  \/ HandleOk

SpecLive == Init /\ [][NextLive]_vars /\ WF_vars(HandleOk)

(* concurrent chat requests of users without a document, within one day    *)
NextChat ==
  \/ \E id \in UserIds : ChatArrive(id)
  \/ \E c \in Chatting, ok \in BOOLEAN : ChatReadUser(c, ok)
  \/ \E c \in Chatting, ok \in BOOLEAN : ChatReadUsage(c, ok)
  \/ \E c \in Chatting, ok \in BOOLEAN : ChatComplete(c, ok)
  \/ \E c \in Chatting, ok \in BOOLEAN : ChatIncrement(c, ok)
  \/ \E c \in Chatting : ChatReturn(c)

SpecChat == Init /\ [][NextChat]_vars

(***************************************************************************)
(* Claims                                                                  *)
(***************************************************************************)
Copies(P(_)) == BagCardinality([r \in {x \in InFlight : P(x)} |-> reqs[r]])

Executions(e) ==
  LET Ran(r) == r.entered /\ r.event.id = e
  IN Copies(Ran)

Quiet(r) ==
  /\ r.reads = 0 /\ r.ledgerWrites = 0 /\ r.userWrites = 0
  /\ ~r.entered /\ r.link = NoMenu

(* C1: for every event id, handleStripeEvent is executed at most once,     *)
(* under any interleaving of concurrent deliveries of the same event.      *)
C1_AtMostOnce == \A e \in EventIds : Executions(e) <= 1

(* C2: a delivery that arrives once the event's ledger record has          *)
(* processedAt is answered 200 and writes no users document, links no rich *)
(* menu and writes nothing to the ledger.                                  *)
C2_ProcessedIsSkipped ==
  \A r \in InFlight :
    r.gate = "processed" =>
      /\ r.resp = <<200>>
      /\ r.userWrites = 0 /\ r.ledgerWrites = 0 /\ r.link = NoMenu
      /\ ~r.entered
      /\ r.pc \in {"get", "done"}

C2_Witness ==
  \E r \in InFlight :
    /\ r.gate = "processed" /\ r.pc = "done" /\ r.reads = 1
    /\ \E f \in InFlight :
         f.event = r.event /\ f.gate = "fresh" /\ f.userWrites = 1 /\ f.pc = "done"

(* C3: a request without a signature header is answered 403 before the     *)
(* signature is verified or the body parsed, and reads and writes neither  *)
(* the ledger nor a users document.                                        *)
C3_MissingSignature ==
  \A r \in InFlight :
    r.sig = "none" =>
      r.resp = <<403>> /\ ~r.parsed /\ r.pc = "done" /\ Quiet(r)

C3_Witness ==
  \E r \in InFlight, c \in InFlight :
    /\ r.sig = "none" /\ r.resp = <<403>> /\ r.ch = "/webhook"
    /\ c.sig = "none" /\ c.resp = <<403>> /\ c.ch = "/webhook-cli"

(* C4: a request whose signature header is present but does not verify     *)
(* against the body with the receiver's secret is answered 400, and writes *)
(* neither the ledger (no lock) nor a users document.                      *)
Unverifiable(r) ==
  \/ r.sig = "bad"
  \/ r.ch = "/webhook" /\ r.sig = "cli"
  \/ r.ch = "/webhook-cli" /\ r.sig = "prod"

C4_InvalidSignature ==
  \A r \in InFlight :
    Unverifiable(r) => r.resp = <<400>> /\ r.pc = "done" /\ Quiet(r)

C4_Witness ==
  \E r \in InFlight, c \in InFlight :
    /\ r.sig = "bad" /\ r.resp = <<400>>
    /\ c.ch = "/webhook-cli" /\ c.sig = "prod" /\ c.resp = <<400>>

(* C5: every request has exactly one response, with status 200, 400 or     *)
(* 403; after a valid signature the response is 200 whatever fails later,  *)
(* and no second response is sent.                                         *)
C5_OneResponse ==
  \A r \in InFlight :
    /\ Len(r.resp) = 1
    /\ r.resp[1] \in {200, 400, 403}
    /\ (r.sig # "none" /\ ~Unverifiable(r)) => r.resp = <<200>>

C5_Witness ==
  \E r \in InFlight :
    /\ r.pc = "done" /\ r.entered /\ r.ledgerWrites = 1 /\ r.resp = <<200>>
    /\ LedgerStatus(ledger, r.event.id) = "locked"

(* the stored flag and the stored expiry of a record                       *)
Flagged(data) == data # Undefined /\ Has(data, "premium") /\ data.premium

Expiry(data) == IF Has(data, "premiumUntil") THEN data.premiumUntil ELSE Null

(* the reads that evaluated isPremiumFromData: <<record, time, result>>    *)
Evaluations ==
  {<<lastRead.data, lastRead.at, lastRead.body.premium>> :
     x \in {y \in {lastRead} : y.status = 200 /\ y.data # Undefined}}
  \cup {<<c.data, c.at, c.premium>> : c \in {y \in Chatting : y.at # 0}}

(* C6: isPremiumFromData is false when the premium flag is not set or the  *)
(* record is absent, true when the flag is set and premiumUntil is absent  *)
(* (or null), and otherwise true exactly when now < premiumUntil.          *)
C6_Projection ==
  \A e \in Evaluations :
    /\ ~Flagged(e[1]) => e[3] = FALSE
    /\ (Flagged(e[1]) /\ Expiry(e[1]) = Null) => e[3] = TRUE
    /\ (Flagged(e[1]) /\ Expiry(e[1]) # Null) => (e[3] <=> e[2] < Expiry(e[1]))

C6_Witness ==
  /\ \E e \in Evaluations : Flagged(e[1]) /\ Expiry(e[1]) = e[2] /\ e[3] = FALSE
  /\ \E e \in Evaluations : e[1] = EmptyDoc /\ e[3] = FALSE

(* C7: GET /api/user/:id of a user without a users document answers with a *)
(* success status and the body of an existing user filled with defaults    *)
(* (exists=false, premium=false).                                          *)
C7_MissingUserDefaults ==
  (lastRead # NoRead /\ lastRead.status # 500 /\ ~Exists(users, lastRead.id)) =>
    /\ lastRead.status = 200
    /\ DOMAIN lastRead.body = DOMAIN DefaultView
    /\ lastRead.body.exists = FALSE /\ lastRead.body.premium = FALSE

(* C8: on both read paths a record with premium=true whose premiumUntil    *)
(* has elapsed is reported as not premium, whatever the stored flag says,  *)
(* and the chat applies the free limit to it.                              *)
Elapsed(data, t) == Flagged(data) /\ Expiry(data) # Null /\ Expiry(data) <= t

C8_LazyExpiry ==
  /\ (lastRead.status = 200 /\ Elapsed(lastRead.data, lastRead.at)) =>
       lastRead.body.premium = FALSE
  /\ \A c \in Chatting :
       (c.at # 0 /\ Elapsed(c.data, c.at)) =>
         /\ c.premium = FALSE
         /\ c.pc \in {"usage", "complete", "incr", "done"}

C8_Witness ==
  /\ lastRead.status = 200 /\ lastRead.src = "index.js"
  /\ Elapsed(lastRead.data, lastRead.at) /\ lastRead.at > 1
  /\ users[lastRead.id].premium /\ lastRead.body.premium = FALSE
  /\ \E c \in Chatting : c.at > 1 /\ Elapsed(c.data, c.at) /\ c.pc = "usage"

(* the requests whose identity resolution has returned and whose users     *)
(* collection is still the one the resolution saw                          *)
ResolvedRequests ==
  {r \in InFlight :
     /\ r.entered /\ r.userWrites = 0 /\ r.pc \in {"write", "mark"}
     /\ r.event.type \in {"invoice.payment_succeeded", "customer.subscription.updated",
                          "customer.subscription.deleted"}}

(* the tag the referenced subscription of an invoice yields                *)
SubscriptionTag(r) ==
  IF r.event.type # "invoice.payment_succeeded" THEN NoUser
  ELSE IF r.event.subRef = "object" THEN r.event.subMetaUser
  ELSE IF r.event.subRef = "id" /\ r.sub = "ok" THEN r.event.subMetaUser
  ELSE NoUser

QueriedUsers(r) == r.reads = 2

(* C9: an invoice event resolves to the userId of its own metadata, else   *)
(* to the userId of the metadata of its subscription (retrieved when only  *)
(* an id is given, a failed retrieval yielding nothing), else to a users   *)
(* document with the invoice's customer id, else to nothing; a             *)
(* subscription event to its own tag, else by customer id; each strategy   *)
(* is tried only if the previous ones yielded nothing.                     *)
C9_ResolutionOrder ==
  \A r \in ResolvedRequests :
    /\ r.event.metaUser # NoUser =>
         r.userId = r.event.metaUser /\ r.sub = "unfetched" /\ ~QueriedUsers(r)
    /\ (r.event.metaUser = NoUser /\ SubscriptionTag(r) # NoUser) =>
         r.userId = SubscriptionTag(r) /\ ~QueriedUsers(r)
    /\ (r.event.metaUser = NoUser /\ SubscriptionTag(r) = NoUser) =>
         IF CustomerMatches(users, r.event.customer) = {} \/ r.event.customer = NoCust
         THEN r.userId = NoUser
         ELSE r.userId \in CustomerMatches(users, r.event.customer) /\ QueriedUsers(r)
    /\ (r.event.type # "invoice.payment_succeeded" \/ r.event.subRef # "id") =>
         r.sub = "unfetched"
    /\ (/\ r.event.type = "invoice.payment_succeeded"
        /\ r.event.metaUser = NoUser /\ r.event.subRef = "id") =>
         r.sub \in {"ok", "failed"}

C9_Witness ==
  \E r \in ResolvedRequests :
    /\ r.event.type = "invoice.payment_succeeded" /\ r.event.metaUser = NoUser
    /\ r.event.subMetaUser # NoUser /\ r.sub = "failed"
    /\ r.userId # NoUser /\ r.userId # r.event.subMetaUser /\ QueriedUsers(r)

(* C10: the lookup by customer id yields a user only when exactly one      *)
(* users document has that stripeCustomerId; with no match or several the  *)
(* resolution yields no user and no document is patched.                   *)
C10_UniqueMatchOnly ==
  \A r \in InFlight :
    (/\ r.entered /\ QueriedUsers(r)
     /\ r.event.type # "checkout.session.completed"
     /\ Cardinality(CustomerMatches(users, r.event.customer)) # 1) =>
      r.userId = NoUser /\ r.userWrites = 0

(* the delivery whose patch has been merged into the document of its user; *)
(* under SpecSeq no other delivery is handled before it returns            *)
Applied == {r \in InFlight : r.userWrites = 1}

(* the value of field f of the document of user u: <<v>>, or <<>> when the *)
(* document or the field is missing                                        *)
Field(coll, u, f) == IF Has(Data(coll, u), f) THEN <<coll[u][f]>> ELSE <<>>

(* the deliveries of one type whose handler has run to its end             *)
Finished(type) ==
  {r \in InFlight : r.event.type = type /\ r.entered /\ r.pc = "done" /\ r.threw = ""}

CheckoutFields ==
  {"premium", "premiumSince", "premiumUntil", "stripeCustomerId",
   "lastSubscriptionId", "cancelPending", "cancelAt"}

(* a checkout whose linked subscription yields a period end                *)
PeriodResolved(r) ==
  /\ r.event.type = "checkout.session.completed"
  /\ r.event.mode = "subscription" /\ r.event.subRef # "none"
  /\ r.event.subPeriodEnd # 0
  /\ r.event.subRef = "id" => r.sub = "ok"

(* C11: once a checkout.session.completed event tagged with user u, whose   *)
(* linked subscription yields the period end P, has been handled, the      *)
(* document of u has premium = true, premiumUntil = P, cancelPending and   *)
(* cancelAt null, and the customer and subscription ids of the session; a  *)
(* user without an earlier document has these fields and premiumSince only.*)
C11_CheckoutActivates ==
  /\ \A r \in Finished("checkout.session.completed") :
       r.event.metaUser # NoUser => r.userWrites = 1
  /\ \A r \in Applied :
       PeriodResolved(r) =>
         /\ r.userId = r.event.metaUser
         /\ Exists(users, r.userId)
         /\ Field(users, r.userId, "premium") = <<TRUE>>
         /\ Field(users, r.userId, "premiumUntil") = <<r.event.subPeriodEnd>>
         /\ Field(users, r.userId, "cancelPending") = <<CancelNull>>
         /\ Field(users, r.userId, "cancelAt") = <<Null>>
         /\ Field(users, r.userId, "stripeCustomerId") = <<r.event.customer>>
         /\ Field(users, r.userId, "lastSubscriptionId") = <<r.event.subId>>
         /\ DOMAIN ledger = {r.event.id} =>
              /\ DOMAIN users = {r.userId}
              /\ DOMAIN users[r.userId] = CheckoutFields
              /\ Field(users, r.userId, "premiumSince") = <<now>>

C11_Witness ==
  \E r \in Finished("checkout.session.completed") :
    /\ PeriodResolved(r) /\ r \in Applied /\ r.event.subRef = "id"
    /\ DOMAIN ledger = {r.event.id}
    /\ LedgerStatus(ledger, r.event.id) = "processed"
    /\ Field(users, r.event.metaUser, "premiumUntil") = <<2>>

(* C12: once a customer.subscription.deleted event whose user is resolved   *)
(* has been handled, the document of that user exists and has              *)
(* premium = false and premiumUntil, cancelPending and cancelAt null,      *)
(* whatever it held before.                                                *)
C12_DeletedClears ==
  /\ \A r \in Finished("customer.subscription.deleted") :
       r.userId # NoUser => r.userWrites = 1
  /\ \A r \in Applied :
       r.event.type = "customer.subscription.deleted" =>
         /\ Exists(users, r.userId)
         /\ Field(users, r.userId, "premium") = <<FALSE>>
         /\ Field(users, r.userId, "premiumUntil") = <<Null>>
         /\ Field(users, r.userId, "cancelPending") = <<CancelNull>>
         /\ Field(users, r.userId, "cancelAt") = <<Null>>

C12_Witness ==
  \E r \in Finished("customer.subscription.deleted") :
    /\ r \in Applied
    /\ LedgerStatus(ledger, r.event.id) = "processed"
    /\ Has(users[r.userId], "premiumSince")
    /\ Has(users[r.userId], "stripeCustomerId")
    /\ Field(users, r.userId, "premiumUntil") = <<Null>>

(* C13: once a customer.subscription.updated event whose user is resolved   *)
(* has been handled: when the subscription has a scheduled cancellation    *)
(* (cancel_at_period_end or cancel_at) the document has cancelPending true *)
(* and cancelAt the time of the cancellation; otherwise cancelPending and  *)
(* cancelAt are null; in both cases premiumUntil is the current period end *)
(* of the event when it has one.                                           *)
C13_UpdatedCancellation ==
  \A r \in Applied :
    r.event.type = "customer.subscription.updated" =>
      /\ IF r.event.cancel_at_period_end \/ r.event.cancel_at # 0
         THEN /\ Field(users, r.userId, "cancelPending") = <<CancelTrue>>
              /\ Field(users, r.userId, "cancelAt") =
                   <<IF r.event.cancel_at # 0 THEN r.event.cancel_at
                     ELSE r.event.current_period_end>>
         ELSE /\ Field(users, r.userId, "cancelPending") = <<CancelNull>>
              /\ Field(users, r.userId, "cancelAt") = <<Null>>
      /\ r.event.current_period_end # 0 =>
           Field(users, r.userId, "premiumUntil") = <<r.event.current_period_end>>

(* the period end of an invoice: of its first line of type subscription,   *)
(* without one of its first line, without lines of the invoice itself      *)
InvoicePeriodEnd(inv) ==
  LET subs == {i \in DOMAIN inv.lines : inv.lines[i].type = "subscription"}
  IN IF subs # {}
     THEN inv.lines[CHOOSE i \in subs : \A j \in subs : i <= j].periodEnd
     ELSE IF inv.lines # <<>> THEN Head(inv.lines).periodEnd
     ELSE inv.period_end

Kept(u, f) == Field(users', u, f) = Field(users, u, f)

(* the delivery whose next call is the merge into the document of its user *)
Writing(types) == {r \in InFlight : r.pc = "write" /\ r.event.type \in types}

(* C15: every transition touches only the fields it names: handling a      *)
(* customer.subscription.updated, invoice.payment_succeeded or             *)
(* customer.subscription.deleted event leaves premiumSince,                *)
(* stripeCustomerId and lastSubscriptionId of the document as they were,   *)
(* and leaves the documents of the other users alone.                      *)
C15_PartialMerge ==
  [][\A r \in Writing({"customer.subscription.updated", "invoice.payment_succeeded",
                       "customer.subscription.deleted"}) :
       users' # users =>
         /\ Kept(r.userId, "premiumSince")
         /\ Kept(r.userId, "stripeCustomerId")
         /\ Kept(r.userId, "lastSubscriptionId")
         /\ \A u \in DOMAIN users : u # r.userId => users'[u] = users[u]]_vars

C15_Witness ==
  \E r \in Applied :
    /\ r.event.type = "customer.subscription.updated"
    /\ Has(users[r.userId], "premiumSince")
    /\ Field(users, r.userId, "stripeCustomerId") = <<r.event.customer>>
    /\ Has(users[r.userId], "lastSubscriptionId")
    /\ Field(users, r.userId, "cancelPending") = <<CancelTrue>>

(* C16: premiumSince of a document is set once: once it holds a value no   *)
(* later event of any type, a second checkout.session.completed event of   *)
(* the same user included, changes it.                                     *)
C16_PremiumSinceSetOnce ==
  [][\A u \in DOMAIN users :
       (Has(users[u], "premiumSince") /\ users[u].premiumSince # Null) =>
         Kept(u, "premiumSince")]_vars

(* C17: stripeCustomerId of a document is set once: once it holds a        *)
(* customer id no later event, a checkout.session.completed event of the   *)
(* same user with another customer id included, changes it.                *)
C17_CustomerIdSetOnce ==
  [][\A u \in DOMAIN users :
       Has(users[u], "stripeCustomerId") => Kept(u, "stripeCustomerId")]_vars

(* the event types handleStripeEvent has a case for                        *)
Handled ==
  {"customer.subscription.updated", "checkout.session.completed",
   "invoice.payment_succeeded", "customer.subscription.deleted"}

(* C18: a verified event of an unrecognized type changes no users document *)
(* and fires no side effect (no lookup, no retrieval, no rich menu), its   *)
(* handling succeeds, and its ledger record ends with processedAt set.     *)
C18_UnknownTypeNoop ==
  \A r \in InFlight :
    (r.entered /\ r.event.type \notin Handled) =>
      /\ r.userWrites = 0 /\ r.link = NoMenu
      /\ r.reads = 1 /\ r.sub = "unfetched" /\ r.userId = NoUser
      /\ r.pc \in {"mark", "done"}
      /\ r.threw \in {"", "mark"}
      /\ (r.pc = "done" /\ r.threw = "") =>
           r.ledgerWrites = 2 /\ LedgerStatus(ledger, r.event.id) = "processed"

C18_Witness ==
  \E r \in InFlight :
    /\ r.entered /\ r.event.type \notin Handled /\ r.event.metaUser # NoUser
    /\ r.pc = "done" /\ r.threw = ""
    /\ LedgerStatus(ledger, r.event.id) = "processed"
    /\ \E u \in DOMAIN users : Has(users[u], "premium")

(* the deliveries whose identity resolution returned no user               *)
Unresolved ==
  {r \in InFlight :
     /\ r.entered /\ r.event.type \in Handled
     /\ r.userId = NoUser /\ r.pc \in {"mark", "done"} /\ r.threw # "query"}

(* C19: when the identity resolution of a verified event yields no user,   *)
(* no users document is written and no rich menu is linked, and the ledger *)
(* record of the event is still marked processed.                          *)
C19_UnresolvedIsProcessed ==
  \A r \in Unresolved :
    /\ r.userWrites = 0 /\ r.link = NoMenu
    /\ r.threw \in {"", "mark"}
    /\ (r.pc = "done" /\ r.threw = "") =>
         r.ledgerWrites = 2 /\ LedgerStatus(ledger, r.event.id) = "processed"

C19_Witness ==
  \E r \in Unresolved :
    /\ r.event.type = "invoice.payment_succeeded" /\ r.sub = "ok" /\ QueriedUsers(r)
    /\ r.pc = "done" /\ r.threw = ""
    /\ LedgerStatus(ledger, r.event.id) = "processed"
    /\ users # EmptyDoc

(* C20: when a call of the payments API fails while an event is handled    *)
(* (the retrieval of the subscription of an invoice, or of a checkout      *)
(* session), that delivery does not mark the ledger record processed.      *)
C20_LookupFailureNotProcessed ==
  \A r \in InFlight :
    r.sub = "failed" => LedgerStatus(ledger, r.event.id) # "processed"

(* C21: when the attempt to handle event e failed after its lock was       *)
(* written (lockedAt without processedAt), a later redelivery of e is      *)
(* handled and leaves the ledger record of e with processedAt: a finished  *)
(* redelivery never leaves the record locked.  Under SpecSeq a delivery    *)
(* finds a locked record only when the attempt that locked it has ended.   *)
C21_RedeliveryRecovers ==
  \A r \in InFlight :
    (r.gate = "locked" /\ r.pc = "done" /\ r.threw = "") =>
      LedgerStatus(ledger, r.event.id) = "processed"

(* C22: a delivery of event e that finds the ledger record of e with       *)
(* lockedAt set and processedAt unset is answered 200 and writes no users  *)
(* document, links no rich menu and writes nothing to the ledger.          *)
C22_LockedIsSkipped ==
  \A r \in InFlight :
    r.gate = "locked" =>
      /\ r.resp = <<200>>
      /\ r.userWrites = 0 /\ r.ledgerWrites = 0 /\ r.link = NoMenu
      /\ ~r.entered /\ r.sub = "unfetched"
      /\ r.pc \in {"get", "done"}

C22_Witness ==
  \E r \in InFlight :
    /\ r.gate = "locked" /\ r.pc = "done" /\ r.reads = 1 /\ r.threw = ""
    /\ LedgerStatus(ledger, r.event.id) = "locked"
    /\ \E f \in InFlight :
         f.event = r.event /\ f.gate = "fresh" /\ f.pc = "done" /\ f.threw = "write"

(* C23: the documents of users are written only by handleStripeEvent,      *)
(* reached through a webhook receiver, and are never deleted: the chat,    *)
(* the user read, the billing portal, the checkout creation, the token     *)
(* resolution and the admin endpoint leave every users document unchanged. *)
C23_OnlyDispatcherWrites ==
  [][/\ users' # users => \E r \in InFlight : r.entered /\ r.pc = "write"
     /\ \A u \in DOMAIN users : u \in DOMAIN users'
     /\ (reqs = EmptyBag /\ reqs' = EmptyBag) => users' = users]_vars

C23_Witness ==
  /\ lastRead.src = "billing-portal" /\ lastRead.status = 302
  /\ Field(users, lastRead.id, "stripeCustomerId") = <<lastRead.body.customer>>
  /\ \E c \in Chatting : c.pc = "done" /\ c.status = 200 /\ c.userId = lastRead.id
  /\ Used(usage, UsageKey(lastRead.id, jstTodayKey(now))) = 1

(* C24: a ledger record is never deleted and never written again after its *)
(* processedAt was set, under any interleaving of deliveries of the same   *)
(* event id: processedAt is written at most once per event id.             *)
MarkedBy(e) == {r \in InFlight : r.event.id = e /\ r.ledgerWrites = 2}

C24_LedgerWrittenOnce ==
  \A e \in EventIds :
    \A r \in MarkedBy(e), s \in MarkedBy(e) : r = s /\ reqs[r] = 1

(* C25: every transition is idempotent on its own: merging the patch of an *)
(* event into the document of its user a second time, at the same or a     *)
(* later time and without the ledger gate, leaves the document as the      *)
(* first merge left it, for every event type and every earlier document.   *)
C25_PatchIdempotent ==
  \A r \in Applied :
    \A t \in now..MaxTime :
      SetMerge(users, r.userId, Patch(r.event, r.sub, t)) = users

(* the document of user u after the patches of events a and then b         *)
InOrder(u, a, b) ==
  SetMerge(SetMerge(users, u, Patch(a, "ok", now)), u, Patch(b, "ok", now))

Renewals ==
  {ev \in SeqCatalog :
     ev.type \in {"customer.subscription.updated", "invoice.payment_succeeded",
                  "customer.subscription.deleted"}}

(* C26: the patches of two events with different ids for the same user are *)
(* safe to apply in any order: a subscription update and a paid invoice,   *)
(* or a paid invoice and a subscription deletion, leave the document of    *)
(* the user the same in either order.                                      *)
C26_OrderIndependent ==
  \A u \in DOMAIN users :
    \A a \in Renewals, b \in Renewals :
      a.id # b.id => InOrder(u, a, b) = InOrder(u, b, a)

(* the deliveries whose signature was verified                             *)
Verified == {r \in InFlight : r.parsed /\ r.event # NoEvent}

(* C27: for a request with a valid signature the 200 is sent before the    *)
(* ledger is read or written and before any users document is written, so  *)
(* the response is the same for a fresh, a locked and a processed event.   *)
C27_RespondsBeforeLedger ==
  \A r \in Verified :
    /\ r.pc = "get" =>
         /\ r.resp = <<200>>
         /\ r.reads = 0 /\ r.ledgerWrites = 0 /\ r.userWrites = 0
    /\ (r.reads > 0 \/ r.ledgerWrites > 0 \/ r.userWrites > 0 \/ r.threw # "") =>
         r.resp = <<200>>

C27_Witness ==
  \E r \in Verified, s \in Verified :
    /\ r.gate = "processed" /\ r.pc = "get" /\ r.reads = 0 /\ r.resp = <<200>>
    /\ s.event = r.event /\ s.gate = "fresh" /\ s.userWrites = 1 /\ s.resp = <<200>>

(* the ledger record of the event of delivery r has lockedAt               *)
Locked(r) == Has(Data(ledger, r.event.id), "lockedAt")

(* C28: the steps of a handled event come in one order: lockedAt written,  *)
(* then the identity resolution, then the write of the users document,     *)
(* then the rich menu, then processedAt written; no users document is      *)
(* written for an event whose ledger record has no lockedAt.               *)
C28_StepOrder ==
  \A r \in InFlight :
    /\ r.pc \in {"retrieve", "query", "write", "link", "mark"} =>
         r.entered /\ r.ledgerWrites = 1 /\ Locked(r)
    /\ r.pc \in {"retrieve", "query", "write"} =>
         r.userWrites = 0 /\ r.link = NoMenu
    /\ r.pc = "write" => r.userId # NoUser
    /\ r.pc = "link" => r.userWrites = 1 /\ r.link = NoMenu
    /\ r.userWrites > 0 =>
         r.userWrites = 1 /\ r.userId # NoUser /\ r.ledgerWrites >= 1 /\ Locked(r)
    /\ r.link # NoMenu => r.userWrites = 1 /\ r.pc \in {"mark", "done"}
    /\ r.ledgerWrites = 2 => r.entered /\ r.pc = "done" /\ r.threw = ""
    /\ r.ledgerWrites <= 2

C28_Witness ==
  \E r \in InFlight :
    /\ r.pc = "done" /\ r.threw = "" /\ r.ledgerWrites = 2 /\ r.userWrites = 1
    /\ r.link # NoMenu /\ QueriedUsers(r) /\ r.event.metaUser = NoUser
    /\ LedgerStatus(ledger, r.event.id) = "processed"

(* C29: processedAt is written only after the handling succeeded: when the *)
(* store query of the identity resolution or the write of the users        *)
(* document throws, that delivery never writes processedAt and the ledger  *)
(* record keeps lockedAt only.                                             *)
C29_MarkOnlyAfterSuccess ==
  \A r \in InFlight :
    /\ r.threw \in {"query", "write"} =>
         /\ r.pc = "done" /\ r.ledgerWrites = 1 /\ r.userWrites = 0
         /\ LedgerStatus(ledger, r.event.id) = "locked"
         /\ ~Has(Data(ledger, r.event.id), "processedAt")
    /\ r.ledgerWrites = 2 => r.threw = ""

C29_Witness ==
  \E r \in InFlight :
    /\ r.threw = "write" /\ QueriedUsers(r) /\ r.userId # NoUser
    /\ Exists(users, r.userId)
    /\ DOMAIN ledger[r.event.id] = {"lockedAt", "type"}

(* the tagged checkout deliveries whose subscription retrieval failed      *)
CheckoutUnretrieved ==
  {r \in InFlight :
     /\ r.event.type = "checkout.session.completed" /\ r.event.metaUser # NoUser
     /\ r.sub = "failed"}

(* C30: when the retrieval of the subscription fails while a checkout      *)
(* completed event with a userId tag is handled, the transition does not   *)
(* fail: the patch is applied (premium true, the customer and subscription *)
(* ids recorded, the cancellation fields cleared) with a null period end,  *)
(* that is premiumUntil of the document is left as it was.                 *)
C30_CheckoutSurvivesRetrieval ==
  [][\A r \in CheckoutUnretrieved :
       /\ r.pc \in {"write", "link", "mark", "done"}
       /\ r.threw \in {"", "write", "mark"}
       /\ r.userId = r.event.metaUser
       /\ (r.pc = "write" /\ users' # users) =>
            /\ Kept(r.userId, "premiumUntil")
            /\ Field(users', r.userId, "premium") = <<TRUE>>
            /\ Field(users', r.userId, "stripeCustomerId") = <<r.event.customer>>
            /\ Field(users', r.userId, "lastSubscriptionId") = <<r.event.subId>>
            /\ Field(users', r.userId, "cancelPending") = <<CancelNull>>
            /\ Field(users', r.userId, "cancelAt") = <<Null>>]_vars

C30_Witness ==
  \E r \in CheckoutUnretrieved :
    /\ r \in Applied /\ r.pc = "done" /\ r.threw = ""
    /\ Field(users, r.userId, "premium") = <<TRUE>>
    /\ Field(users, r.userId, "premiumUntil") # <<>>
    /\ Field(users, r.userId, "premiumUntil") # <<Null>>
    /\ Field(users, r.userId, "premiumUntil") # <<r.event.subPeriodEnd>>
    /\ Field(users, r.userId, "lastSubscriptionId") = <<r.event.subId>>

(* the checkout deliveries that entered handleStripeEvent                  *)
Checkouts ==
  {r \in InFlight : r.entered /\ r.event.type = "checkout.session.completed"}

(* C31: a checkout completed event takes its user only from the userId tag *)
(* of its own metadata: without the tag no users document is written and   *)
(* no side effect is fired, even when the customer id of the session is    *)
(* the stripeCustomerId of an existing user.                               *)
C31_CheckoutTagOnly ==
  \A r \in Checkouts :
    /\ r.userId = r.event.metaUser
    /\ ~QueriedUsers(r)
    /\ r.event.metaUser = NoUser =>
         /\ r.userWrites = 0 /\ r.link = NoMenu /\ r.sub = "unfetched"
         /\ r.pc \in {"mark", "done"}

C31_Witness ==
  \E r \in Checkouts :
    /\ r.event.metaUser = NoUser /\ r.event.subRef = "id"
    /\ CustomerMatches(users, r.event.customer) # {}
    /\ r.pc = "done" /\ r.threw = ""
    /\ LedgerStatus(ledger, r.event.id) = "processed"

(* the deliveries that requested a rich menu                               *)
Linked == {r \in InFlight : r.link # NoMenu}

(* C32: the rich menu requested as side effect follows from the event:     *)
(* premium for checkout completed and invoice payment succeeded, regular   *)
(* for subscription deleted, and for subscription updated regular when a   *)
(* cancellation is pending and premium otherwise; it is requested only for *)
(* an event whose user was resolved and whose users write completed.       *)
C32_MenuVariant ==
  \A r \in Linked :
    /\ r.userId # NoUser /\ r.userWrites = 1 /\ Exists(users, r.userId)
    /\ r.event.type \in Handled
    /\ r.event.type \in {"checkout.session.completed", "invoice.payment_succeeded"} =>
         r.link = RICHMENU_ID_PREMIUM
    /\ r.event.type = "customer.subscription.deleted" => r.link = RICHMENU_ID_REGULAR
    /\ r.event.type = "customer.subscription.updated" =>
         r.link = IF r.event.cancel_at_period_end \/ r.event.cancel_at # 0
                  THEN RICHMENU_ID_REGULAR ELSE RICHMENU_ID_PREMIUM

C32_Witness ==
  \E r \in Linked :
    /\ r.event.type = "customer.subscription.updated"
    /\ ~r.event.cancel_at_period_end /\ r.event.cancel_at # 0
    /\ r.link = RICHMENU_ID_REGULAR /\ r.pc = "done" /\ r.threw = ""
    /\ Field(users, r.userId, "cancelPending") = <<CancelTrue>>

(* the chats that were answered with the fallback reply                    *)
FellBack == {c \in Chatting : c.reply = "fallback"}

(* the increments the chats have made to the usage document of key         *)
Incremented(key) ==
  BagCardinality([c \in {x \in Chatting :
                           x.incrs > 0 /\ UsageKey(x.userId, x.dayKey) = key}
                    |-> chats[c] * c.incrs])

(* C33: when the call of the completion provider fails in chatWithAiko the *)
(* fallback reply is returned with limited = false and the daily usage     *)
(* count of the user is not incremented: the usage_daily document is left  *)
(* as it was.                                                              *)
C33_FallbackNotCounted ==
  /\ \A c \in FellBack :
       c.pc = "done" /\ c.status = 200 /\ ~c.limited /\ c.incrs = 0
  /\ \A u \in UserIds, d \in {jstTodayKey(t) : t \in Times} :
       Used(usage, UsageKey(u, d)) = Incremented(UsageKey(u, d))

C33_Witness ==
  \E c \in FellBack :
    /\ ~c.premium /\ c.pc = "done" /\ c.status = 200
    /\ ~Exists(usage, UsageKey(c.userId, c.dayKey))
    /\ Exists(users, c.userId)

(* C34: for a user who is not premium the daily usage count of a pair of   *)
(* user and day never exceeds the free limit of 3, so that at most 3       *)
(* counted completions are made for the pair, under any interleaving of    *)
(* concurrent chat requests of the user.                                   *)
C34_FreeLimit ==
  \A key \in DOMAIN usage : Used(usage, key) <= LIMIT

(* the deliveries whose rich menu call failed after their users write      *)
LinkFailed ==
  {r \in InFlight : r.userWrites = 1 /\ r.link = NoMenu /\ r.pc # "link"}

(* C35: a failure of the rich menu call is swallowed by                    *)
(* linkRichMenuIdToUser: it does not undo the users write of the event and *)
(* does not keep the ledger record of the event from being marked          *)
(* processed.                                                              *)
C35_LinkFailureSwallowed ==
  \A r \in LinkFailed :
    /\ r.pc \in {"mark", "done"}
    /\ r.threw \in {"", "mark"}
    /\ r.resp = <<200>>
    /\ Exists(users, r.userId)
    /\ SetMerge(users, r.userId, Patch(r.event, r.sub, now)) = users
    /\ (r.pc = "done" /\ r.threw = "") =>
         r.ledgerWrites = 2 /\ LedgerStatus(ledger, r.event.id) = "processed"

C35_Witness ==
  \E r \in LinkFailed :
    /\ r.pc = "done" /\ r.threw = ""
    /\ r.event.type = "customer.subscription.deleted"
    /\ Field(users, r.userId, "premium") = <<FALSE>>
    /\ Has(users[r.userId], "premiumSince")
    /\ LedgerStatus(ledger, r.event.id) = "processed"

(* delivery r arrived when a delivery through the other receiver had       *)
(* locked or processed its event                                           *)
SeenThroughOther(r) ==
  /\ r.event # NoEvent /\ r.gate \in {"locked", "processed"}
  /\ \E f \in InFlight :
       f.event.id = r.event.id /\ f.ch # r.ch /\ f.ledgerWrites >= 1

(* C36: the production and the CLI receiver share one ledger keyed by the  *)
(* event id: an event locked or processed through one of them is skipped,  *)
(* with no users write and no side effect, when it is later delivered      *)
(* through the other.                                                      *)
C36_SharedLedger ==
  \A r \in InFlight :
    SeenThroughOther(r) =>
      /\ ~r.entered /\ r.userWrites = 0 /\ r.link = NoMenu
      /\ r.ledgerWrites = 0 /\ r.sub = "unfetched"

C36_Witness ==
  \E r \in InFlight, f \in InFlight :
    /\ r.ch = "/webhook-cli" /\ f.ch = "/webhook" /\ f.event = r.event
    /\ r.gate = "locked" /\ r.pc = "done" /\ r.reads = 1 /\ r.userWrites = 0
    /\ f.userWrites = 1 /\ f.pc = "link"

(* the deliveries of event id e that found no ledger record                *)
FreshOf(e) == {r \in Verified : r.event.id = e /\ r.gate = "fresh"}

(* C37: when no store call and no call of the payments API fails, every    *)
(* verified event with a fresh event id that is delivered is eventually    *)
(* marked processed: a handler of it ends and its ledger record has        *)
(* processedAt, whatever its type and whether or not a user was resolved.  *)
C37_EventuallyProcessed ==
  \A e \in {ev.id : ev \in LiveCatalog} :
    (FreshOf(e) # {}) ~>
      (/\ LedgerStatus(ledger, e) = "processed"
       /\ \E r \in FreshOf(e) : r.pc = "done" /\ r.ledgerWrites = 2)

C37_Witness ==
  \E r \in Verified :
    /\ r.gate = "fresh" /\ r.pc = "done" /\ r.ledgerWrites = 2
    /\ r.event.type = "invoice.payment_succeeded" /\ r.sub = "ok"
    /\ r.userId = NoUser /\ r.userWrites = 0
    /\ LedgerStatus(ledger, r.event.id) = "processed"

(* the document of user u, or no document, is the same after the step      *)
Untouched(u) ==
  /\ Exists(users', u) = Exists(users, u)
  /\ Data(users', u) = Data(users, u)

(* C38: handling one event writes at most one users document, the one of   *)
(* the resolved user id; the documents of all other users are left as they *)
(* were.                                                                   *)
C38_OneDocument ==
  [][\A r \in InFlight :
       /\ r.userWrites <= 1
       /\ r.pc # "write" => users' = users
       /\ r.pc = "write" => \A u \in UserIds : u # r.userId => Untouched(u)]_vars

C38_Witness ==
  \E r \in Applied, u \in DOMAIN users :
    /\ u # r.userId
    /\ Field(users, u, "stripeCustomerId") = <<r.event.customer>>
    /\ Field(users, r.userId, "premiumUntil") # Field(users, u, "premiumUntil")
    /\ r.pc = "done" /\ r.threw = ""

(* the ledger record of e, if it has processedAt, has lockedAt and type    *)
TwoPhase(coll, e) ==
  LedgerStatus(coll, e) = "processed" =>
    /\ Has(coll[e], "lockedAt") /\ coll[e].lockedAt # Null
    /\ Has(coll[e], "type")

(* C39: in every reachable state every ledger record with processedAt has  *)
(* lockedAt and type as well: the status of a record only moves from       *)
(* absent to locked to processed and never skips the locked phase.         *)
C39_TwoPhaseLedger ==
  [][\A e \in DOMAIN ledger \cup DOMAIN ledger' :
       /\ TwoPhase(ledger, e) /\ TwoPhase(ledger', e)
       /\ <<LedgerStatus(ledger, e), LedgerStatus(ledger', e)>> \in
            {<<"fresh", "fresh">>, <<"fresh", "locked">>, <<"locked", "locked">>,
             <<"locked", "processed">>, <<"processed", "processed">>}]_vars

C39_Witness ==
  \E e \in DOMAIN ledger, f \in DOMAIN ledger :
    /\ DOMAIN ledger[e] = {"lockedAt", "type", "processedAt"}
    /\ DOMAIN ledger[f] = {"lockedAt", "type"}
    /\ \A r \in InFlight : r.pc = "done"

====
